---------------------------- MODULE Spec2Model ----------------------------
(***************************************************************************)
(* Model of Boid3D (src/src/boids/boid3d.rs): the neighbour scans          *)
(* separate / align / cohesion, the elementary transition with_force and   *)
(* the per-tick transition update.                                         *)
(*                                                                         *)
(* Scalars.  The scalar type U is a float.  A scalar is modelled exactly   *)
(* as a pair <<n, d>>:                                                     *)
(*    d > 0            the rational n/d in lowest terms                    *)
(*    d = 0, n = 0     NaN                                                 *)
(*    d = 0, n = +-1   +-infinity                                          *)
(*    d < 0, n > 0     the irrational square root sqrt(n/(-d)); it can be  *)
(*                     compared exactly but not computed with              *)
(*    d < 0, n = 0     a real that the rationals cannot represent          *)
(*                     (the result of computing with an irrational root)   *)
(* A call whose result holds an unrepresentable real is left out of the    *)
(* model (the guards of the call actions), so every value in a reachable   *)
(* state is the exact real-number (or NaN) result of the code.             *)
(***************************************************************************)
EXTENDS Integers, Sequences, FiniteSets

VARIABLES flock, self, sel, ret, steps, start, flock0

vars == <<flock, self, sel, ret, steps, start, flock0>>

---------------------------------------------------------------------------
(* Scalar arithmetic *)

Abs(n) == IF n < 0 THEN -n ELSE n

Sgn(n) == IF n > 0 THEN 1 ELSE IF n < 0 THEN -1 ELSE 0

RECURSIVE GCD(_, _)
GCD(a, b) == IF b = 0 THEN a ELSE GCD(b, a % b)

Q(n, d) ==
    IF d = 0 THEN <<Sgn(n), 0>>
    ELSE LET g == GCD(Abs(n), Abs(d))
             s == Sgn(d)
         IN  <<(s * n) \div g, (s * d) \div g>>

Zero == <<0, 1>>
One  == <<1, 1>>
NaN  == <<0, 0>>
Unrep == <<0, -1>>

IsNaN(x)   == x = NaN
IsSurd(x)  == x[2] < 0 /\ x[1] > 0
IsUnrep(x) == x[2] < 0

Add(x, y) ==
    IF IsUnrep(x) \/ IsUnrep(y) THEN Unrep
    ELSE IF x[2] = 0 /\ y[2] = 0 THEN (IF x = y THEN x ELSE NaN)
    ELSE IF x[2] = 0 \/ y[2] = 0 THEN Q(x[1] * y[2] + y[1] * x[2], 0)
    ELSE LET g == GCD(x[2], y[2])
         IN  Q(x[1] * (y[2] \div g) + y[1] * (x[2] \div g), (x[2] \div g) * y[2])

Neg(x) == IF IsUnrep(x) THEN Unrep ELSE <<-x[1], x[2]>>

Sub(x, y) == Add(x, Neg(y))

Mul(x, y) ==
    IF IsUnrep(x) \/ IsUnrep(y) THEN Unrep
    ELSE IF x[2] = 0 \/ y[2] = 0 \/ x[1] = 0 \/ y[1] = 0 THEN Q(x[1] * y[1], x[2] * y[2])
    ELSE LET g == GCD(Abs(x[1]), y[2])
             h == GCD(Abs(y[1]), x[2])
         IN  Q((x[1] \div g) * (y[1] \div h), (x[2] \div h) * (y[2] \div g))

Div(x, y) ==
    IF IsUnrep(x) \/ IsUnrep(y) THEN Unrep
    ELSE Mul(x, Q(y[2], y[1]))

\* The square of a comparable scalar (a rational, an infinity or a root).
Sq(x) == IF IsSurd(x) THEN Q(x[1], -x[2]) ELSE Mul(x, x)

\* a/b against c/d (a, c >= 0 and b, d > 0) by their continued fractions:
\* 1 when a/b > c/d, -1 when a/b < c/d, 0 when equal.  No product is formed.
RECURSIVE CmpPos(_, _, _, _)
CmpPos(a, b, c, d) ==
    IF a \div b # c \div d THEN (IF a \div b > c \div d THEN 1 ELSE -1)
    ELSE IF a % b = 0 /\ c % d = 0 THEN 0
    ELSE IF a % b = 0 THEN -1
    ELSE IF c % d = 0 THEN 1
    ELSE -CmpPos(b, a % b, d, c % d)

\* Rationals and infinities.
Cmp(x, y) ==
    IF x = y THEN 0
    ELSE IF x[2] = 0 THEN x[1]
    ELSE IF y[2] = 0 THEN -y[1]
    ELSE IF x[1] < 0 /\ y[1] >= 0 THEN -1
    ELSE IF x[1] >= 0 /\ y[1] < 0 THEN 1
    ELSE IF x[1] < 0 THEN CmpPos(-y[1], y[2], -x[1], x[2])
    ELSE CmpPos(x[1], x[2], y[1], y[2])

\* x > y as IEEE compares: false when either side is NaN.
Gt(x, y) ==
    IF IsNaN(x) \/ IsNaN(y) \/ x = Unrep \/ y = Unrep THEN FALSE
    ELSE IF IsSurd(x) \/ IsSurd(y)
         THEN IF ~IsSurd(x) /\ x[1] < 0 THEN FALSE
              ELSE IF ~IsSurd(y) /\ y[1] < 0 THEN TRUE
              ELSE Cmp(Sq(x), Sq(y)) = 1
    ELSE Cmp(x, y) = 1

Lt(x, y) == Gt(y, x)

Le(x, y) == Gt(y, x) \/ (~IsNaN(x) /\ ~IsUnrep(x) /\ x = y)

RECURSIVE ISqrtIn(_, _, _)
ISqrtIn(n, lo, hi) ==
    IF lo >= hi THEN lo
    ELSE LET mid == (lo + hi + 1) \div 2
         IN  IF mid * mid <= n THEN ISqrtIn(n, mid, hi) ELSE ISqrtIn(n, lo, mid - 1)

\* 46340 is the largest integer whose square is a 32-bit integer.
ISqrt(n) == ISqrtIn(n, 0, IF n > 46340 THEN 46340 ELSE n)

IsSquare(n) == ISqrt(n) * ISqrt(n) = n

Sqrt(x) ==
    IF IsUnrep(x) THEN Unrep
    ELSE IF x[2] = 0 THEN (IF x[1] > 0 THEN x ELSE NaN)
    ELSE IF x[1] < 0 THEN NaN
    ELSE IF IsSquare(x[1]) /\ IsSquare(x[2]) THEN <<ISqrt(x[1]), ISqrt(x[2])>>
    ELSE <<x[1], -x[2]>>

---------------------------------------------------------------------------
(* Vector3 *)

V3(x, y, z) == [x |-> x, y |-> y, z |-> z]

VI(a, b, c) == V3(<<a, 1>>, <<b, 1>>, <<c, 1>>)

ZeroV == VI(0, 0, 0)

VAdd(a, b) == V3(Add(a.x, b.x), Add(a.y, b.y), Add(a.z, b.z))

VSub(a, b) == V3(Sub(a.x, b.x), Sub(a.y, b.y), Sub(a.z, b.z))

VMul(a, s) == V3(Mul(a.x, s), Mul(a.y, s), Mul(a.z, s))

VDiv(a, s) == V3(Div(a.x, s), Div(a.y, s), Div(a.z, s))

Magnitude2(a) == Add(Add(Mul(a.x, a.x), Mul(a.y, a.y)), Mul(a.z, a.z))

Magnitude(a) == Sqrt(Magnitude2(a))

Distance(a, b) == Magnitude(VSub(b, a))

Normalize(a) == VMul(a, Div(One, Magnitude(a)))

VIsNaN(a) == IsNaN(a.x) \/ IsNaN(a.y) \/ IsNaN(a.z)

VUnrep(a) == IsUnrep(a.x) \/ IsUnrep(a.y) \/ IsUnrep(a.z)

limit_magnitude_v3(v, max) ==
    IF Gt(Magnitude(v), max) THEN VMul(Normalize(v), max) ELSE v

---------------------------------------------------------------------------
(* Boid3D and Flock values *)

Weights(s, a, c, t) == [separation |-> s, alignment |-> a, cohesion |-> c, targeting |-> t]

Boid3D(p, v, prof) ==
    [position |-> p, velocity |-> v, acceleration |-> prof.acceleration,
     max_speed |-> prof.max_speed, max_force |-> prof.max_force, r |-> prof.r,
     weights |-> prof.weights]

\* Option<Vector3>: <<>> is None, <<t>> is Some(t).
None == <<>>
Some(t) == <<t>>

---------------------------------------------------------------------------
(* The neighbour scans.  A scan's state is its accumulator and its count.  *)

Scan(acc, count) == [acc |-> acc, count |-> count]

\* Nearby with the upper bound taken inclusively.
NearbyInclusive(b, boid, radius) ==
    /\ Gt(Distance(b.position, boid.position), Zero)
    /\ Le(Distance(b.position, boid.position), radius)

\* distance > 0 && distance < radius
Nearby(b, boid, radius) ==
    /\ Gt(Distance(b.position, boid.position), Zero)
    /\ Lt(Distance(b.position, boid.position), radius)

\* Reynolds: steer = desired direction at max_speed, less the velocity,
\* limited to max_force.
Reynolds(b, desired) ==
    limit_magnitude_v3(VSub(VMul(Normalize(desired), b.max_speed), b.velocity), b.max_force)

(* separate *)

SeparateDiff(b, boid) ==
    VDiv(Normalize(VSub(b.position, boid.position)), Distance(b.position, boid.position))

SeparateStep(st, b, boid, radius) ==
    IF Nearby(b, boid, radius)
    THEN Scan(VAdd(st.acc, SeparateDiff(b, boid)), Add(st.count, One))
    ELSE st

RECURSIVE SeparateLoop(_, _, _)
SeparateLoop(b, fl, i) ==
    IF i = 0 THEN Scan(ZeroV, Zero)
    ELSE SeparateStep(SeparateLoop(b, fl, i - 1), b, fl.boids[i], fl.goal_separation)

SeparateAverage(st) ==
    IF Gt(st.count, Zero) THEN VDiv(st.acc, st.count) ELSE st.acc

\* SeparateSteer returning the averaged vector without the Reynolds step.
SeparateSteerRaw(b, steer) == steer

SeparateSteer(b, steer) ==
    IF Gt(Magnitude(steer), Zero) THEN Reynolds(b, steer) ELSE steer

Separate(b, fl) ==
    SeparateSteer(b, SeparateAverage(SeparateLoop(b, fl, Len(fl.boids))))

(* align *)

AlignStep(st, b, boid, radius) ==
    IF Nearby(b, boid, radius)
    THEN Scan(VAdd(st.acc, boid.velocity), Add(st.count, One))
    ELSE st

RECURSIVE AlignLoop(_, _, _)
AlignLoop(b, fl, i) ==
    IF i = 0 THEN Scan(ZeroV, Zero)
    ELSE AlignStep(AlignLoop(b, fl, i - 1), b, fl.boids[i], fl.goal_alignment)

\* AlignSteer without the count > 0 test.
AlignSteerUnchecked(b, st) == Reynolds(b, VDiv(st.acc, st.count))

AlignSteer(b, st) ==
    IF Gt(st.count, Zero)
    THEN Reynolds(b, VDiv(st.acc, st.count))
    ELSE ZeroV

Align(b, fl) == AlignSteer(b, AlignLoop(b, fl, Len(fl.boids)))

(* cohesion *)

CohesionStep(st, b, boid, radius) ==
    IF Nearby(b, boid, radius)
    THEN Scan(VAdd(st.acc, boid.position), Add(st.count, One))
    ELSE st

RECURSIVE CohesionLoop(_, _, _)
CohesionLoop(b, fl, i) ==
    IF i = 0 THEN Scan(ZeroV, Zero)
    ELSE CohesionStep(CohesionLoop(b, fl, i - 1), b, fl.boids[i], fl.goal_cohesion)

CohesionSteer(b, st) ==
    IF Gt(st.count, Zero)
    THEN Reynolds(b, VSub(VDiv(st.acc, st.count), b.position))
    ELSE ZeroV

Cohesion(b, fl) == CohesionSteer(b, CohesionLoop(b, fl, Len(fl.boids)))

---------------------------------------------------------------------------
(* with_force and update.  Each yields the returned agent (boid) together  *)
(* with the receiver as the call leaves it (self).                         *)

\* let mut boid = self.clone()
Clone(b) == [self |-> b, boid |-> b]

\* boid.velocity.add_assign(force)
AddForce(m, force) == [m EXCEPT !.boid.velocity = VAdd(@, force)]

\* boid.velocity = limit_magnitude_v3(boid.velocity, self.max_speed)
LimitSpeed(m) == [m EXCEPT !.boid.velocity = limit_magnitude_v3(@, m.self.max_speed)]

\* ApplyVelocity that leaves the position where it was.
ApplyVelocitySkipped(m) == m

\* boid.position.add_assign(boid.velocity)
ApplyVelocity(m) == [m EXCEPT !.boid.position = VAdd(@, m.boid.velocity)]

\* ResetAcceleration that keeps the acceleration.
ResetAccelerationSkipped(m) == m

\* boid.acceleration.mul_assign(U::zero())
ResetAcceleration(m) == [m EXCEPT !.boid.acceleration = VMul(@, Zero)]

\* with_force writing to the receiver instead of to a clone of it.
WithForceInPlace(b, force) ==
    [self |-> ResetAcceleration(ApplyVelocity(LimitSpeed(AddForce(Clone(b), force)))).boid,
     boid |-> ResetAcceleration(ApplyVelocity(LimitSpeed(AddForce(Clone(b), force)))).boid]

WithForce(b, force) ==
    ResetAcceleration(ApplyVelocity(LimitSpeed(AddForce(Clone(b), force))))

Targeting(b, fl) ==
    IF fl.target # None THEN VSub(fl.target[1], b.position) ELSE ZeroV

\* update applying the sum of the four forces in one with_force.
ChainSummed(b, separation, alignment, cohesion, targeting) ==
    WithForce(b, VAdd(VAdd(VAdd(separation, alignment), cohesion), targeting))

\* self.with_force(separation).with_force(alignment)
\*     .with_force(cohesion).with_force(targeting)
Chain(b, separation, alignment, cohesion, targeting) ==
    [self |-> WithForce(b, separation).self,
     boid |-> WithForce(WithForce(WithForce(WithForce(b, separation).boid,
                                  alignment).boid, cohesion).boid, targeting).boid]

Update(b, fl) ==
    Chain(b, VMul(Separate(b, fl), b.weights.separation),
             VMul(Align(b, fl), b.weights.alignment),
             VMul(Cohesion(b, fl), b.weights.cohesion),
             VMul(Targeting(b, fl), b.weights.targeting))

---------------------------------------------------------------------------
(* Inputs *)

MaxBoids == 3
MaxSteps == 1
MaxDenom == 4

R(n, d) == Q(n, d)

\* Kinematic states a flock is drawn from: <<position, velocity>>.
Pool ==
    << <<VI(0, 0, 0),  VI(1, 0, 0)>>,
       <<VI(1, 0, 0),  VI(-3, 0, 0)>>,
       <<VI(-1, 0, 0), VI(3, 0, 0)>>,
       <<VI(0, 0, 0),  VI(0, 3, 4)>>,
       <<VI(0, 2, 0),  VI(0, 0, 0)>>,
       <<VI(0, 1, 0),  VI(0, 0, 0)>>,
       <<V3(Zero, R(2, 1), R(3, 2)), VI(0, 0, 0)>> >>

\* Limits, weights and initial acceleration of the agents of a flock.
\* DefaultProfile holds the limits new_with_angle sets; StrongProfile has
\* max_force above max_speed, SlowProfile below it.
DefaultProfile ==
    [max_speed |-> R(2, 1), max_force |-> R(3, 100), r |-> R(2, 1),
     weights |-> Weights(One, One, One, One), acceleration |-> ZeroV]

StrongProfile ==
    [max_speed |-> One, max_force |-> R(2, 1), r |-> R(2, 1),
     weights |-> Weights(One, R(2, 1), One, One), acceleration |-> VI(0, 0, 3)]

SlowProfile ==
    [max_speed |-> One, max_force |-> R(1, 2), r |-> One,
     weights |-> Weights(R(2, 1), One, R(3, 2), R(1, 2)),
     acceleration |-> VI(1, -1, 0)]

\* Flock settings: the agents' profile, the three radii and the target.
Scenarios ==
    { [prof |-> DefaultProfile, goal_separation |-> R(3, 1), goal_alignment |-> R(3, 1),
       goal_cohesion |-> R(3, 1), target |-> None],
      [prof |-> StrongProfile, goal_separation |-> R(3, 1), goal_alignment |-> R(3, 1),
       goal_cohesion |-> R(3, 1), target |-> None],
      [prof |-> SlowProfile, goal_separation |-> R(2, 1), goal_alignment |-> One,
       goal_cohesion |-> R(3, 2), target |-> Some(VI(0, 2, 0))] }

Forces == { VI(0, 1, 0), VI(-100, 0, 0) }

Max(S) == CHOOSE m \in S : \A k \in S : k <= m

RECURSIVE PickBoids(_, _)
PickBoids(S, prof) ==
    IF S = {} THEN <<>>
    ELSE LET m == Max(S)
         IN  Append(PickBoids(S \ {m}, prof), Boid3D(Pool[m][1], Pool[m][2], prof))

---------------------------------------------------------------------------
(* State machine *)

BUnrep(b) == VUnrep(b.position) \/ VUnrep(b.velocity) \/ VUnrep(b.acceleration)

\* The returned agents the model goes on from: coordinates whose
\* denominators are at most MaxDenom (or NaN).
InRange(x) == x[2] >= 0 /\ x[2] <= MaxDenom

VInRange(a) == InRange(a.x) /\ InRange(a.y) /\ InRange(a.z)

NoCall(b) ==
    [op |-> "none", recv |-> b, vec |-> ZeroV, boid |-> b,
     count |-> Zero, acc |-> ZeroV, force |-> ZeroV]

Init ==
    \E S \in SUBSET (1 .. Len(Pool)), sc \in Scenarios :
        /\ S # {}
        /\ Cardinality(S) <= MaxBoids
        /\ flock = [boids |-> PickBoids(S, sc.prof),
                    goal_separation |-> sc.goal_separation,
                    goal_alignment |-> sc.goal_alignment,
                    goal_cohesion |-> sc.goal_cohesion, target |-> sc.target]
        /\ flock0 = flock
        /\ sel = 1
        /\ self = flock.boids[1]
        /\ start = self
        /\ ret = NoCall(self)
        /\ steps = 0

\* The receiver is flock.boids[sel] when sel > 0 (a borrowed member of the
\* flock) and a temporary otherwise: what a call does to its receiver it
\* does to that member.
Receiver(fl, after) ==
    IF sel > 0 THEN [fl EXCEPT !.boids[sel] = after] ELSE fl

CallSeparate ==
    /\ ret' = [NoCall(self) EXCEPT !.op = "separate",
                                   !.vec = Separate(self, flock),
                                   !.count = SeparateLoop(self, flock, Len(flock.boids)).count,
                                   !.acc = SeparateLoop(self, flock, Len(flock.boids)).acc]
    /\ ~VUnrep(ret'.vec)
    /\ UNCHANGED <<flock, self, sel, steps, start, flock0>>

CallAlign ==
    /\ ret' = [NoCall(self) EXCEPT !.op = "align",
                                   !.vec = Align(self, flock),
                                   !.count = AlignLoop(self, flock, Len(flock.boids)).count,
                                   !.acc = AlignLoop(self, flock, Len(flock.boids)).acc]
    /\ ~VUnrep(ret'.vec)
    /\ UNCHANGED <<flock, self, sel, steps, start, flock0>>

CallCohesion ==
    /\ ret' = [NoCall(self) EXCEPT !.op = "cohesion",
                                   !.vec = Cohesion(self, flock),
                                   !.count = CohesionLoop(self, flock, Len(flock.boids)).count,
                                   !.acc = CohesionLoop(self, flock, Len(flock.boids)).acc]
    /\ ~VUnrep(ret'.vec)
    /\ UNCHANGED <<flock, self, sel, steps, start, flock0>>

CallWithForce(force) ==
    \E r \in {WithForce(self, force)} :
        /\ ~BUnrep(r.boid)
        /\ ret' = [NoCall(self) EXCEPT !.op = "with_force", !.boid = r.boid,
                                       !.force = force]
        /\ self' = r.self
        /\ flock' = Receiver(flock, r.self)
        /\ UNCHANGED <<sel, steps, start, flock0>>

CallUpdate ==
    \E r \in {Update(self, flock)} :
        /\ ~BUnrep(r.boid)
        /\ ret' = [NoCall(self) EXCEPT !.op = "update", !.boid = r.boid]
        /\ self' = r.self
        /\ flock' = Receiver(flock, r.self)
        /\ UNCHANGED <<sel, steps, start, flock0>>

\* The returned agent becomes the receiver of the next call.
Advance ==
    /\ ret.op \in {"with_force", "update"}
    /\ steps < MaxSteps
    /\ VInRange(ret.boid.position) /\ VInRange(ret.boid.velocity)
    /\ self' = ret.boid
    /\ sel' = 0
    /\ steps' = steps + 1
    /\ ret' = NoCall(ret.boid)
    /\ UNCHANGED <<flock, start, flock0>>

\* The caller turns to a member of the flock.
Select(i) ==
    /\ i \in 1 .. Len(flock.boids)
    /\ self' = flock.boids[i]
    /\ sel' = i
    /\ start' = flock.boids[i]
    /\ steps' = 0
    /\ ret' = NoCall(flock.boids[i])
    /\ UNCHANGED <<flock, flock0>>

Next ==
    \/ CallSeparate
    \/ CallAlign
    \/ CallCohesion
    \/ \E force \in Forces : CallWithForce(force)
    \/ CallUpdate
    \/ Advance
    \/ \E i \in 1 .. MaxBoids : Select(i)

Spec == Init /\ [][Next]_vars

---------------------------------------------------------------------------
(* Properties.  ret describes the last call: ret.recv is the receiver as   *)
(* it was when the call began.                                             *)

ForceOps == {"separate", "align", "cohesion"}

MoveOps == {"with_force", "update"}

RadiusOf(op, fl) ==
    CASE op = "separate" -> fl.goal_separation
      [] op = "align"    -> fl.goal_alignment
      [] op = "cohesion" -> fl.goal_cohesion

\* Squared distance, and the strict bounds 0 < d < radius stated on squares.
D2(a, b) == Magnitude2(VSub(a, b))

Within(b, boid, radius) ==
    /\ Gt(D2(b.position, boid.position), Zero)
    /\ Gt(radius, Zero)
    /\ Gt(Sq(radius), D2(b.position, boid.position))

Included(b, fl, radius) == { j \in 1 .. Len(fl.boids) : Within(b, fl.boids[j], radius) }

Contribution(op, b, boid) ==
    CASE op = "separate" ->
             VDiv(Normalize(VSub(b.position, boid.position)),
                  Distance(b.position, boid.position))
      [] op = "align"    -> boid.velocity
      [] op = "cohesion" -> boid.position

RECURSIVE SumOver(_, _, _, _)
SumOver(S, op, b, fl) ==
    IF S = {} THEN ZeroV
    ELSE VAdd(SumOver(S \ {Max(S)}, op, b, fl), Contribution(op, b, fl.boids[Max(S)]))

\* The averaged neighbour contribution a scan hands to the Reynolds step.
Averaged(r) ==
    IF r.op = "cohesion" THEN VSub(VDiv(r.acc, r.count), r.recv.position)
    ELSE VDiv(r.acc, r.count)

MinQ(x, y) == IF Gt(x, y) THEN y ELSE x

\* C1: every agent returned by with_force or update (the receiver having
\* max_speed >= 0) has a velocity of magnitude <= max_speed.
C1_SpeedCapped ==
    (ret.op \in MoveOps /\ Le(Zero, ret.recv.max_speed))
        => Le(Magnitude(ret.boid.velocity), ret.recv.max_speed)

\* C1, restricted: the cap holds of every returned agent whose velocity is
\* not NaN, so the only agents over the cap are those fed a NaN force.
C1_SpeedCappedUnlessNaN ==
    (ret.op \in MoveOps /\ ~VIsNaN(ret.boid.velocity))
        => Le(Magnitude(ret.boid.velocity), ret.recv.max_speed)

\* update has just returned in a flock of one agent with no target.
SingleNoTarget ==
    /\ ret.op = "update"
    /\ Len(flock.boids) = 1
    /\ sel = 1
    /\ flock.target = None

\* C2 as stated: in a flock of one agent with no target, update returns an
\* agent with the position and the velocity the receiver had.
C2_SingleAgentUnchanged ==
    SingleNoTarget => /\ ret.boid.position = ret.recv.position
                      /\ ret.boid.velocity = ret.recv.velocity

\* C2 amended: in a flock of one agent with no target the four forces are
\* zero; the returned velocity is the
\* receiver's velocity limited to max_speed, and the returned position is
\* the receiver's position advanced by that velocity four times.
C2_SingleAgentDrifts ==
    SingleNoTarget =>
        /\ Separate(ret.recv, flock) = ZeroV
        /\ Align(ret.recv, flock) = ZeroV
        /\ Cohesion(ret.recv, flock) = ZeroV
        /\ Targeting(ret.recv, flock) = ZeroV
        /\ ret.boid.velocity = limit_magnitude_v3(ret.recv.velocity, ret.recv.max_speed)
        /\ ret.boid.position =
               VAdd(ret.recv.position, VMul(ret.boid.velocity, R(4, 1)))
        /\ (Le(Magnitude(ret.recv.velocity), ret.recv.max_speed)
               => ret.boid.velocity = ret.recv.velocity)

C2_Witness ==
    /\ SingleNoTarget
    /\ ret.boid.velocity = ret.recv.velocity
    /\ ret.boid.position # ret.recv.position

\* C3: separate, align and cohesion return a vector of magnitude <=
\* max_force whenever at least one neighbour was counted.
C3_ForceBounded ==
    (ret.op \in ForceOps /\ Gt(ret.count, Zero))
        => Le(Magnitude(ret.vec), ret.recv.max_force)

\* C3, restricted: the bound holds of every result that is not NaN.
C3_ForceBoundedUnlessNaN ==
    (ret.op \in ForceOps /\ Gt(ret.count, Zero) /\ ~VIsNaN(ret.vec))
        => Le(Magnitude(ret.vec), ret.recv.max_force)

\* C4: no scan normalizes a zero vector: when the averaged contribution is
\* the zero vector the method returns the zero vector, and no result is NaN.
C4_ZeroAverageContributesNothing ==
    ret.op \in ForceOps =>
        /\ ~VIsNaN(ret.vec)
        /\ (Gt(ret.count, Zero) /\ Averaged(ret) = ZeroV) => ret.vec = ZeroV

\* C4, for separate alone, which does check the magnitude first.
C4_SeparateGuarded ==
    ret.op = "separate" =>
        /\ ~VIsNaN(ret.vec)
        /\ (Gt(ret.count, Zero) /\ Averaged(ret) = ZeroV) => ret.vec = ZeroV

\* C5: separate, align and cohesion return exactly the zero vector when no
\* agent of the flock lies at a distance d with 0 < d < the radius.
C5_NoNeighbourZero ==
    (ret.op \in ForceOps /\ Included(ret.recv, flock, RadiusOf(ret.op, flock)) = {})
        => ret.vec = ZeroV

C5_Witness ==
    /\ ret.op = "align"
    /\ Len(flock.boids) = 3
    /\ Included(ret.recv, flock, flock.goal_alignment) = {}
    /\ Included(ret.recv, flock, flock.goal_separation) # {}
    /\ ret.recv.velocity # ZeroV
    /\ ret.vec = ZeroV

\* C6: with_force and update leave the receiver and the flock as they were:
\* the receiver still has every field it had when the call began, the flock
\* is the snapshot the run began with, and update on a member of the flock
\* returns what that snapshot alone determines, whichever agents were
\* updated before it.
C6_NonMutating ==
    /\ flock = flock0
    /\ ret.op \in MoveOps => self = ret.recv
    /\ sel > 0 => self = flock0.boids[sel]
    /\ (ret.op = "update" /\ sel > 0)
           => ret.boid = Update(flock0.boids[sel], flock0).boid

C6_Witness ==
    /\ ret.op = "update"
    /\ sel = 2
    /\ ret.boid.position # self.position
    /\ ret.boid.velocity # self.velocity
    /\ flock = flock0

\* separate has just returned on A in a flock of two stationary agents A
\* and B with 0 < d < goal_separation.
TwoStationary ==
    /\ ret.op = "separate"
    /\ Len(flock.boids) = 2
    /\ sel > 0
    /\ flock.boids[1].velocity = ZeroV
    /\ flock.boids[2].velocity = ZeroV
    /\ Included(ret.recv, flock, flock.goal_separation) = {3 - sel}

Away == VSub(ret.recv.position, flock.boids[3 - sel].position)

\* C7 as stated: for two stationary agents A and B at distance d with
\* 0 < d < goal_separation, separate on A returns the unit vector pointing
\* away from B scaled by 1/d.
C7_InverseDistance ==
    TwoStationary =>
        /\ ret.vec # ZeroV
        /\ ret.vec = VDiv(Normalize(Away), Magnitude(Away))

\* C7 amended: with max_speed > 0 and max_force > 0, the returned vector is
\* the unit vector pointing away from B scaled to min(max_speed, max_force),
\* whatever d is.
C7_AwayAtLimit ==
    (TwoStationary /\ Gt(ret.recv.max_speed, Zero) /\ Gt(ret.recv.max_force, Zero)) =>
        /\ ret.vec # ZeroV
        /\ ret.vec = VMul(Normalize(Away), MinQ(ret.recv.max_speed, ret.recv.max_force))

C7_Witness ==
    /\ TwoStationary
    /\ Magnitude(Away) = R(3, 2)
    /\ Magnitude(ret.vec) = R(1, 2)

\* The k-th force of update, weighted, computed from the receiver and the
\* flock as they were before the first step.
WeightedForce(k, b, fl) ==
    CASE k = 1 -> VMul(Separate(b, fl), b.weights.separation)
      [] k = 2 -> VMul(Align(b, fl), b.weights.alignment)
      [] k = 3 -> VMul(Cohesion(b, fl), b.weights.cohesion)
      [] k = 4 -> VMul(Targeting(b, fl), b.weights.targeting)

VelocityStep(prev, k, b, fl) ==
    limit_magnitude_v3(VAdd(prev, WeightedForce(k, b, fl)), b.max_speed)

RECURSIVE VelocityAfter(_, _, _)
VelocityAfter(k, b, fl) ==
    IF k = 0 THEN b.velocity
    ELSE CHOOSE v \in { VelocityStep(prev, k, b, fl) : prev \in {VelocityAfter(k - 1, b, fl)} } :
             TRUE

RECURSIVE PositionAfter(_, _, _)
PositionAfter(k, b, fl) ==
    IF k = 0 THEN b.position
    ELSE VAdd(PositionAfter(k - 1, b, fl), VelocityAfter(k, b, fl))

\* C8: update is the four with_force steps in the order separation,
\* alignment, cohesion, targeting, every force computed from the receiver
\* and the flock as they were before the first step: the k-th velocity is
\* the (k-1)-th plus the k-th weighted force, limited to max_speed, and the
\* position advances by each of the four velocities in turn.
C8_Sequential ==
    ret.op = "update" =>
        /\ ret.boid.velocity = VelocityAfter(4, ret.recv, flock)
        /\ ret.boid.position = PositionAfter(4, ret.recv, flock)

\* The single summed force applied once.
SummedForce(b, fl) ==
    VAdd(VAdd(VAdd(WeightedForce(1, b, fl), WeightedForce(2, b, fl)),
              WeightedForce(3, b, fl)), WeightedForce(4, b, fl))

C8_Witness ==
    /\ ret.op = "update"
    /\ Cardinality({k \in 1 .. 4 : WeightedForce(k, ret.recv, flock) # ZeroV}) >= 2
    /\ ~VIsNaN(ret.boid.velocity)
    /\ ret.boid.velocity # WithForce(ret.recv, SummedForce(ret.recv, flock)).boid.velocity

\* C9: an agent of the flock is counted, and contributes to the
\* accumulated vector, exactly when its distance d to the receiver has
\* 0 < d < radius; the average divides by the number of those agents.
C9_StrictNeighbourhood ==
    ret.op \in ForceOps =>
        /\ ret.count = <<Cardinality(Included(ret.recv, flock, RadiusOf(ret.op, flock))), 1>>
        /\ ret.acc = SumOver(Included(ret.recv, flock, RadiusOf(ret.op, flock)),
                             ret.op, ret.recv, flock)
        /\ (ret.op = "align" /\ Gt(ret.count, Zero))
               => ret.vec = Reynolds(ret.recv, VDiv(ret.acc, ret.count))

C9_Witness ==
    /\ ret.op = "align"
    /\ sel > 0
    /\ Len(flock.boids) = 3
    /\ ret.count = One
    /\ \E j \in 1 .. 3 : j # sel /\ flock.boids[j].position = ret.recv.position
    /\ ~VIsNaN(ret.vec)
    /\ ret.vec # ZeroV

SameLimits(a, b) ==
    /\ a.max_speed = b.max_speed
    /\ a.max_force = b.max_force
    /\ a.r = b.r
    /\ a.weights = b.weights

\* C10: every agent a with_force or update call returns, and so every
\* agent reached by a sequence of them, has zero acceleration and the
\* max_speed, max_force, r and weights of the agent the sequence began with.
C10_AccelerationReset ==
    /\ ret.op \in MoveOps => (ret.boid.acceleration = ZeroV /\ SameLimits(ret.boid, start))
    /\ steps > 0 => (self.acceleration = ZeroV /\ SameLimits(self, start))

C10_Witness ==
    /\ steps > 0
    /\ ret.op = "update"
    /\ start.acceleration # ZeroV
    /\ ret.boid.acceleration = ZeroV
    /\ ret.boid.position # start.position

===========================================================================
